---- MODULE Spec2Model ----
(***************************************************************************)
(* State-machine model of the AI service (services/ai-service/src): the    *)
(* persistence services of database/operations.py over the tables of       *)
(* database/models.py (the recommendation cache, the audio-feature upsert  *)
(* and the user-preference records), the audio analyzer with its thread    *)
(* pool and cosine similarity (services/audio_analyzer.py) and the room    *)
(* scorer of services/recommendation_engine.py.                            *)
(*                                                                         *)
(* Time is a logical clock `now` (one unit = one hour, the unit of         *)
(* expires_in_hours).  A handler that runs in one session and is committed *)
(* by its caller is one atomic action in the sequential specifications;    *)
(* the concurrent specification splits the upsert at its await points.     *)
(***************************************************************************)
EXTENDS Integers, Sequences, FiniteSets, TLC

\* ---------------------------------------------------------------- bounds
MaxTime == 2
MaxEntries == 2
MaxHits == 2

\* ------------------------------------------------------- input alphabets
Users == {"u1", "u2"}
RecTypes == {"rooms", "similar"}
CandidateLists == {<<"r1">>, <<"r2", "r1">>}
TtlHours == {0, 2}

Sessions == {"s1", "s2"}
AudioIds == {"a1", "a2"}

VARIABLES
    now,            \* datetime.utcnow() / func.now(), in hours
    cache,          \* table recommendation_cache: sequence of rows, id = index
    last,           \* outcome of the most recent cache-service call
    features,       \* table audio_features: sequence of rows
    sess,           \* per database session: the save request it is serving
    lastSave,       \* outcome of the most recent save_audio_features call
    prefs,          \* table user_preferences: sequence of rows
    lastPref,       \* outcome of the most recent preferences-service call
    libs,           \* AUDIO_LIBS_AVAILABLE, once the analyzer module is imported
    tasks,          \* the extractions handed to the analyzer's thread pool
    rec,            \* the most recent call of the recommendation engine
    sim,            \* the most recent cosine-similarity call
    mat,            \* the most recent calculate_similarities call
    anl,            \* the most recent response of the analyze endpoint
    gets,           \* per database session: the cache get it is serving
    put             \* the most recent PUT /preferences request

cacheVars == <<now, cache, last>>
audioVars == <<features, sess, lastSave>>
prefVars == <<prefs, lastPref>>
extractVars == <<libs, tasks>>
requestVars == <<mat, anl, gets, put>>
engineVars == <<extractVars, rec, sim, requestVars>>
vars == <<now, cache, last, features, sess, lastSave, prefs, lastPref,
          libs, tasks, rec, sim, mat, anl, gets, put>>

\* `last` records the call (op, user, type, ttl), its outcome (status, the id
\* and candidate list of the row it returned or wrote) and the hit counter
\* the returned row had when the query read it (before).
NoCall == [op |-> "none", user |-> "", type |-> "", status |-> "",
           id |-> 0, before |-> 0, ttl |-> 0, rooms |-> <<>>]

\* Variant of the row constructor that counts the write as a first access.
RecommendationCacheCounted(user, type, rooms, expires) ==
    [userId |-> user,
     recommendedRooms |-> rooms,
     totalRecommendations |-> Len(rooms),
     contextType |-> type,
     createdAt |-> now,
     expiresAt |-> expires,
     hitCount |-> 1,
     lastAccessed |-> now,
     isValid |-> TRUE]

\* A row of recommendation_cache with the column defaults of the model:
\* createdAt and lastAccessed default to func.now(), hitCount to 0,
\* isValid to True.  The recommendation type is stored in contextData.type.
RecommendationCache(user, type, rooms, expires) ==
    [userId |-> user,
     recommendedRooms |-> rooms,
     totalRecommendations |-> Len(rooms),
     contextType |-> type,
     createdAt |-> now,
     expiresAt |-> expires,
     hitCount |-> 0,
     lastAccessed |-> now,
     isValid |-> TRUE]

\* Variant of the query without the expiry condition.
CacheQueryIgnoringExpiry(user, type) ==
    {i \in DOMAIN cache :
        /\ cache[i].userId = user
        /\ cache[i].isValid = TRUE}

\* The rows selected by get_cached_recommendations: the WHERE clause
\* filters on userId, expiresAt > utcnow() and isValid == True; the
\* recommendation_type argument takes no part in the query.
CacheQuery(user, type) ==
    {i \in DOMAIN cache :
        /\ cache[i].userId = user
        /\ cache[i].expiresAt > now
        /\ cache[i].isValid = TRUE}

\* Variant of the access tracking that refreshes lastAccessed only.
UpdateAccessTrackingUncounted(row) ==
    [row EXCEPT !.lastAccessed = now]

\* Variant of the access tracking with a sliding expiry: a read restarts
\* the row's time to live.
UpdateAccessTrackingSliding(row) ==
    [row EXCEPT !.hitCount = @ + 1, !.lastAccessed = now,
                !.expiresAt = now + (row.expiresAt - row.createdAt)]

\* "Update access tracking": hitCount += 1 and lastAccessed = utcnow().
UpdateAccessTracking(row) ==
    [row EXCEPT !.hitCount = @ + 1, !.lastAccessed = now]

\* get_cached_recommendations: scalar_one_or_none() gives None for no row,
\* the row for one row, and raises MultipleResultsFound for several rows.
\* A found row has its access tracking updated and is returned.
GetCachedRecommendations(user, type) ==
    LET found == CacheQuery(user, type) IN
    /\ \A i \in found : cache[i].hitCount < MaxHits
    /\ IF Cardinality(found) = 0 THEN
            /\ cache' = cache
            /\ last' = [NoCall EXCEPT !.op = "get", !.user = user,
                            !.type = type, !.status = "miss"]
       ELSE IF Cardinality(found) = 1 THEN
            LET i == CHOOSE j \in found : TRUE IN
            /\ cache' = [cache EXCEPT ![i] = UpdateAccessTracking(@)]
            /\ last' = [NoCall EXCEPT !.op = "get", !.user = user,
                            !.type = type, !.status = "hit", !.id = i,
                            !.before = cache[i].hitCount,
                            !.rooms = cache[i].recommendedRooms]
       ELSE
            /\ cache' = cache
            /\ last' = [NoCall EXCEPT !.op = "get", !.user = user,
                            !.type = type, !.status = "error"]
    /\ UNCHANGED <<now, audioVars, prefVars, engineVars>>

\* cache_recommendations: always adds a fresh row, expiresAt = utcnow() +
\* timedelta(hours=expires_in_hours); existing rows are left as they are.
CacheRecommendations(user, type, rooms, ttl) ==
    /\ Len(cache) < MaxEntries
    /\ cache' = Append(cache, RecommendationCache(user, type, rooms, now + ttl))
    /\ last' = [NoCall EXCEPT !.op = "put", !.user = user, !.type = type,
                    !.status = "ok", !.id = Len(cache) + 1, !.ttl = ttl,
                    !.rooms = rooms]
    /\ UNCHANGED <<now, audioVars, prefVars, engineVars>>

\* clear_expired_cache: the DELETE is built from RecommendationCache.expires_at,
\* an attribute the model class does not have (the column is expiresAt), so
\* the call raises AttributeError before any statement reaches the database.
ClearExpiredCache ==
    /\ cache' = cache
    /\ last' = [NoCall EXCEPT !.op = "purge", !.status = "error"]
    /\ UNCHANGED <<now, audioVars, prefVars, engineVars>>

\* The isValid column is cleared by the owner of the shared schema; the
\* service itself only reads it.
Invalidate(i) ==
    /\ i \in DOMAIN cache
    /\ cache[i].isValid = TRUE
    /\ cache' = [cache EXCEPT ![i].isValid = FALSE]
    /\ last' = [NoCall EXCEPT !.op = "invalidate", !.status = "ok", !.id = i]
    /\ UNCHANGED <<now, audioVars, prefVars, engineVars>>

\* The clock advances.
Tick ==
    /\ now < MaxTime
    /\ now' = now + 1
    /\ last' = [NoCall EXCEPT !.op = "tick"]
    /\ UNCHANGED <<cache, audioVars, prefVars, engineVars>>

CacheNext ==
    \/ \E u \in Users, t \in RecTypes : GetCachedRecommendations(u, t)
    \/ \E u \in Users, t \in RecTypes, r \in CandidateLists, h \in TtlHours :
            CacheRecommendations(u, t, r, h)
    \/ ClearExpiredCache
    \/ \E i \in 1..MaxEntries : Invalidate(i)
    \/ Tick

\* ------------------------------------------------ audio_features upsert
None == "None"

\* dict.get(key, default)
DictGet(d, k, default) == IF k \in DOMAIN d THEN d[k] ELSE default

EmptyDict == [k \in {} |-> k]

\* Feature dictionaries handed to save_audio_features: two complete
\* extractor results and one that lacks the mfcc, spectral and
\* feature_vector keys and the tempo.
FeatureDicts ==
    {[mfcc |-> [mean |-> <<1, 2>>], spectral |-> [centroid_mean |-> 4000],
      basic |-> [tempo |-> 120, duration |-> 180],
      feature_vector |-> <<5, 5, 5>>],
     [mfcc |-> [mean |-> <<3, 4>>], spectral |-> [centroid_mean |-> 2400],
      basic |-> [tempo |-> 90, duration |-> 30],
      feature_vector |-> <<1, 2, 3>>],
     [basic |-> [duration |-> 30]]}

\* spectral.centroid_mean / 8000.0, kept in thousandths.
Energy(f) ==
    (DictGet(DictGet(f, "spectral", EmptyDict), "centroid_mean", 0) * 1000)
        \div 8000

\* The columns both branches of save_audio_features assign from the
\* feature dictionary.
FeatureColumns(f) ==
    [mfccFeatures |-> DictGet(f, "mfcc", EmptyDict),
     spectralFeatures |-> DictGet(f, "spectral", EmptyDict),
     rhythmFeatures |-> DictGet(f, "basic", EmptyDict),
     tempo |-> DictGet(DictGet(f, "basic", EmptyDict), "tempo", None),
     energy |-> Energy(f),
     duration |-> DictGet(DictGet(f, "basic", EmptyDict), "duration", None),
     embeddings |-> DictGet(f, "feature_vector", <<>>)]

\* The update branch: the seven feature columns are overwritten and
\* extractedAt is set to the utcnow() read by the call (at); audioFileId,
\* analysisVersion and confidence stay.
UpdateFeatures(row, f, at) ==
    [k \in DOMAIN row |->
        IF k \in DOMAIN FeatureColumns(f) THEN FeatureColumns(f)[k]
        ELSE IF k = "extractedAt" THEN at
        ELSE row[k]]

\* The insert branch: a new AudioFeatures row; extractedAt defaults to
\* func.now().
AudioFeatures(id, f) ==
    [k \in DOMAIN FeatureColumns(f) \cup
           {"audioFileId", "analysisVersion", "confidence", "extractedAt"} |->
        IF k \in DOMAIN FeatureColumns(f) THEN FeatureColumns(f)[k]
        ELSE IF k = "audioFileId" THEN id
        ELSE IF k = "analysisVersion" THEN "librosa-1.0"
        ELSE IF k = "confidence" THEN 80
        ELSE now]

\* Variant of the existence check that compares the row's primary key
\* with the audio file id and so never finds the record.
ExistingFeaturesById(id) ==
    {i \in DOMAIN features : i = 0}

\* select(AudioFeatures).where(AudioFeatures.audioFileId == audio_file_id)
ExistingFeatures(id) ==
    {i \in DOMAIN features : features[i].audioFileId = id}

\* audioFileId is declared unique=True: an INSERT of a second row with the
\* same audioFileId raises IntegrityError.
UniqueViolation(id) ==
    \E i \in DOMAIN features : features[i].audioFileId = id

NoSave == [op |-> "none", id |-> "", feat |-> EmptyDict, status |-> "",
           row |-> 0, branch |-> ""]

IdleSession == [pc |-> "idle", id |-> "", feat |-> EmptyDict, existing |-> 0,
                at |-> 0, resp |-> "none"]

\* save_audio_features followed by the caller's commit, with no other
\* session active in between: the existence check, then the update of the
\* found row or the insert of a new one.
SaveAudioFeatures(id, f) ==
    LET existing == ExistingFeatures(id) IN
    /\ \A s \in Sessions : sess[s].pc = "idle"
    /\ IF Cardinality(existing) > 1 THEN
            /\ features' = features
            /\ lastSave' = [NoSave EXCEPT !.op = "save", !.id = id, !.feat = f,
                                !.status = "error"]
       ELSE IF Cardinality(existing) = 1 THEN
            LET i == CHOOSE j \in existing : TRUE IN
            /\ features' = [features EXCEPT ![i] = UpdateFeatures(@, f, now)]
            /\ lastSave' = [NoSave EXCEPT !.op = "save", !.id = id, !.feat = f,
                                !.status = "ok", !.row = i, !.branch = "update"]
       ELSE IF UniqueViolation(id) THEN
            /\ features' = features
            /\ lastSave' = [NoSave EXCEPT !.op = "save", !.id = id, !.feat = f,
                                !.status = "error", !.branch = "insert"]
       ELSE
            /\ features' = Append(features, AudioFeatures(id, f))
            /\ lastSave' = [NoSave EXCEPT !.op = "save", !.id = id, !.feat = f,
                                !.status = "ok", !.row = Len(features) + 1,
                                !.branch = "insert"]
    /\ UNCHANGED <<sess, cacheVars, prefVars, engineVars>>

\* analyze_and_save_audio up to its first database round trip: the session
\* runs the existence check of save_audio_features and keeps its result;
\* the update or the new row stays pending in the session.
SaveCheck(s, id, f) ==
    LET existing == ExistingFeatures(id) IN
    /\ sess[s].pc = "idle"
    /\ Cardinality(existing) <= 1
    /\ sess' = [sess EXCEPT ![s] =
            [pc |-> "checked", id |-> id, feat |-> f,
             existing |-> IF existing = {} THEN 0
                          ELSE CHOOSE j \in existing : TRUE,
             at |-> now, resp |-> "none"]]
    /\ UNCHANGED <<features, lastSave, cacheVars, prefVars, engineVars>>

\* analyze_and_save_audio from db.commit() on: the pending UPDATE or INSERT
\* is flushed.  An INSERT that meets a row with the same audioFileId raises
\* IntegrityError; the handler rolls back and answers 500.
SaveCommit(s) ==
    LET r == sess[s] IN
    /\ r.pc = "checked"
    /\ IF r.existing # 0 THEN
            /\ features' = [features EXCEPT ![r.existing] = UpdateFeatures(@, r.feat, r.at)]
            /\ sess' = [sess EXCEPT ![s] = [IdleSession EXCEPT !.resp = "success"]]
            /\ lastSave' = [NoSave EXCEPT !.op = "save", !.id = r.id,
                                !.feat = r.feat, !.status = "ok",
                                !.row = r.existing, !.branch = "update"]
       ELSE IF UniqueViolation(r.id) THEN
            /\ features' = features
            /\ sess' = [sess EXCEPT ![s] = [IdleSession EXCEPT !.resp = "error500"]]
            /\ lastSave' = [NoSave EXCEPT !.op = "save", !.id = r.id,
                                !.feat = r.feat, !.status = "error",
                                !.branch = "insert"]
       ELSE
            /\ features' = Append(features, AudioFeatures(r.id, r.feat))
            /\ sess' = [sess EXCEPT ![s] = [IdleSession EXCEPT !.resp = "success"]]
            /\ lastSave' = [NoSave EXCEPT !.op = "save", !.id = r.id,
                                !.feat = r.feat, !.status = "ok",
                                !.row = Len(features) + 1, !.branch = "insert"]
    /\ UNCHANGED <<cacheVars, prefVars, engineVars>>

\* ------------------------------------------------------ user_preferences
MaxInteractions == 2

\* The columns of UserPreferences the model follows.
DefaultPreferences(user) ==
    [userId |-> user,
     genrePreferences |-> <<>>,
     tempoRange |-> [min |-> 60, max |-> 180],
     energyRange |-> [min |-> 0, max |-> 1],
     discoveryMode |-> "balanced",
     confidenceScore |-> 0,
     interactionCount |-> 0,
     learningEnabled |-> TRUE,
     lastUpdated |-> now]

\* Update maps: attribute names of the model class (camelCase columns) and
\* names that are no attribute of it (the snake_case keys of the router's
\* allow-list).  confidenceScore is kept in hundredths.  Some maps name
\* columns a caller is not meant to set: a confidence of 1.5 and the
\* interaction counter itself.
UpdateMaps ==
    {EmptyDict,
     [confidenceScore |-> 50],
     [confidenceScore |-> 150],
     [interactionCount |-> 0],
     [discoveryMode |-> "explore", genrePreferences |-> <<"jazz", "blues">>],
     [confidence_score |-> 90, tempo_range |-> <<80, 120>>]}

\* Variant of the lookup that matches no stored row.
ExistingPreferencesNone(user) ==
    {i \in DOMAIN prefs : prefs[i].userId = user /\ i = 0}

\* select(UserPreferences).where(UserPreferences.userId == user_id)
ExistingPreferences(user) ==
    {i \in DOMAIN prefs : prefs[i].userId = user}

NoPrefCall == [op |-> "none", user |-> "", status |-> "", id |-> 0,
               created |-> FALSE]

\* get_or_create_preferences: the stored row of the user, or a new row with
\* the defaults when there is none.
GetOrCreatePreferences(user) ==
    LET existing == ExistingPreferences(user) IN
    /\ IF Cardinality(existing) > 1 THEN
            /\ prefs' = prefs
            /\ lastPref' = [NoPrefCall EXCEPT !.op = "get_or_create",
                                !.user = user, !.status = "error"]
       ELSE IF Cardinality(existing) = 1 THEN
            /\ prefs' = prefs
            /\ lastPref' = [NoPrefCall EXCEPT !.op = "get_or_create",
                                !.user = user, !.status = "ok",
                                !.id = CHOOSE j \in existing : TRUE]
       ELSE
            /\ prefs' = Append(prefs, DefaultPreferences(user))
            /\ lastPref' = [NoPrefCall EXCEPT !.op = "get_or_create",
                                !.user = user, !.status = "ok",
                                !.id = Len(prefs) + 1, !.created = TRUE]
    /\ UNCHANGED <<cacheVars, audioVars, engineVars>>

\* The loop of update_preferences: setattr for every key of the map that
\* is an attribute of the row (hasattr), other keys are skipped.
SetAttributes(row, updates) ==
    [k \in DOMAIN row |-> IF k \in DOMAIN updates THEN updates[k] ELSE row[k]]

\* update_preferences: get_or_create, the setattr loop, then lastUpdated =
\* utcnow() and interactionCount += 1 (on the value the loop has left).
UpdatePreferences(user, updates) ==
    LET existing == ExistingPreferences(user)
        row == IF existing = {} THEN DefaultPreferences(user)
               ELSE prefs[CHOOSE j \in existing : TRUE]
        i == IF existing = {} THEN Len(prefs) + 1
             ELSE CHOOSE j \in existing : TRUE
        set == SetAttributes(row, updates)
        new == [set EXCEPT !.lastUpdated = now,
                           !.interactionCount = @ + 1]
    IN
    /\ Cardinality(existing) <= 1
    /\ row.interactionCount < MaxInteractions
    /\ prefs' = IF existing = {} THEN Append(prefs, new)
                ELSE [prefs EXCEPT ![i] = new]
    /\ lastPref' = [NoPrefCall EXCEPT !.op = "update", !.user = user,
                        !.status = "ok", !.id = i,
                        !.created = (existing = {})]
    /\ UNCHANGED <<cacheVars, audioVars, engineVars>>

\* -------------------------------------------------------- audio analyzer
\* services/audio_analyzer.py.  Fractions are kept in thousandths (0.5 is
\* 500); tempo, duration and the spectral means are whole numbers.
MaxRequests == 5

MaxWorkers == 4
NMfcc == 13
NChroma == 12
NContrast == 7
MockVectorLength == 45

\* Uploaded bytes: no bytes at all, bytes librosa.load cannot decode, a clip
\* it decodes but a later librosa call rejects, and two decodable signals.
AudioContents == {"empty", "clip", "tone", "noise"}
Filenames == {"upload.wav"}

\* The module-level import of librosa and numpy, which sets
\* AUDIO_LIBS_AVAILABLE once.
ImportAudioLibs(ok) ==
    /\ libs = "unloaded"
    /\ libs' = IF ok THEN "available" ELSE "missing"
    /\ UNCHANGED <<tasks, rec, sim, cacheVars, audioVars, prefVars,
                  requestVars>>

Replicate(n, x) == [k \in 1..n |-> x]

RECURSIVE SumSeq(_)
SumSeq(s) == IF s = <<>> THEN 0 ELSE Head(s) + SumSeq(Tail(s))

Isqrt(n) == CHOOSE r \in 0..n : r * r <= n /\ (r + 1) * (r + 1) > n

\* _get_mock_features
GetMockFeatures(filename) ==
    [error |-> "Audio processing libraries not available",
     filename |-> filename,
     basic |-> [duration |-> 180, sample_rate |-> 44100, tempo |-> 120,
                beats_count |-> 240],
     spectral |-> [centroid_mean |-> 2000, rolloff_mean |-> 4000,
                   bandwidth_mean |-> 1500, zcr_mean |-> 100],
     mfcc |-> [mean |-> Replicate(NMfcc, 0)],
     chroma |-> [mean |-> Replicate(NChroma, 0)],
     contrast |-> [mean |-> Replicate(NContrast, 0)],
     feature_vector |-> Replicate(MockVectorLength, 500)]

\* The librosa calls of _extract_features_sync and the statistics dict built
\* from them.  What librosa computes is outside the service: a decodable
\* signal is represented by one number the statistics are derived from, and
\* the shapes are librosa's (13 MFCCs as requested, 12 chroma bins, 7
\* contrast bands).
LibrosaRaises(content) == content \in {"empty", "clip"}

LibrosaFeatures(content) ==
    LET g == IF content = "tone" THEN 1 ELSE 3 IN
    [basic |-> [duration |-> 30 * g, sample_rate |-> 22050,
                tempo |-> 60 + 30 * g, beats_count |-> 15 * g * (2 + g)],
     spectral |-> [centroid_mean |-> 1000 * g, rolloff_mean |-> 2000 * g,
                   bandwidth_mean |-> 500 * g, zcr_mean |-> 40 * g],
     mfcc |-> [mean |-> [k \in 1..NMfcc |-> g * (k - 7) * (k - 7) - 20]],
     chroma |-> [mean |-> [k \in 1..NChroma |-> 40 * k + 100 * g]],
     contrast |-> [mean |-> [k \in 1..NContrast |-> 1000 * (10 + k * g)]]]

\* _create_feature_vector: six scaled scalars, the z-scored MFCC means, the
\* chroma means and the contrast means, appended in this order.
CreateFeatureVector(f) ==
    IF libs # "available" THEN Replicate(MockVectorLength, 500)
    ELSE
        LET m == f.mfcc.mean
            mean == SumSeq(m) \div Len(m)
            var == SumSeq([k \in DOMAIN m |-> (m[k] - mean) * (m[k] - mean)])
                       \div Len(m)
            std == Isqrt(var)
            normalized == [k \in DOMAIN m |->
                              IF std = 0 THEN 0
                              ELSE ((m[k] - mean) * 1000) \div std]
        IN
        <<(f.basic.tempo * 1000) \div 200,
          (f.basic.duration * 1000) \div 300,
          (f.spectral.centroid_mean * 1000) \div 8000,
          (f.spectral.rolloff_mean * 1000) \div 8000,
          (f.spectral.bandwidth_mean * 1000) \div 4000,
          f.spectral.zcr_mean>>
            \o normalized \o f.chroma.mean \o f.contrast.mean

\* Variant of the extraction whose exception handler lets the error through.
ExtractFeaturesSyncUnguarded(content, filename) ==
    IF libs # "available" THEN
        [status |-> "returned", features |-> GetMockFeatures(filename)]
    ELSE IF LibrosaRaises(content) THEN
        [status |-> "raised", features |-> GetMockFeatures(filename)]
    ELSE
        [status |-> "returned",
         features |-> [k \in DOMAIN LibrosaFeatures(content) \cup {"feature_vector"} |->
                          IF k = "feature_vector"
                          THEN CreateFeatureVector(LibrosaFeatures(content))
                          ELSE LibrosaFeatures(content)[k]]]

\* _extract_features_sync: the mock when the libraries are missing or any
\* exception is raised inside the try block, else the statistics with their
\* feature vector.
ExtractFeaturesSync(content, filename) ==
    IF libs # "available" THEN
        [status |-> "returned", features |-> GetMockFeatures(filename)]
    ELSE IF LibrosaRaises(content) THEN
        [status |-> "returned", features |-> GetMockFeatures(filename)]
    ELSE
        [status |-> "returned",
         features |-> [k \in DOMAIN LibrosaFeatures(content) \cup {"feature_vector"} |->
                          IF k = "feature_vector"
                          THEN CreateFeatureVector(LibrosaFeatures(content))
                          ELSE LibrosaFeatures(content)[k]]]

\* A request handed to the pool: the arguments run_in_executor was given,
\* where the request stands, and what the worker returned.
NoResult == [status |-> "pending", features |-> EmptyDict]

Queued == {i \in DOMAIN tasks : tasks[i].state = "queued"}
Running == {i \in DOMAIN tasks : tasks[i].state = "running"}

\* extract_features: run_in_executor puts the call with its arguments on
\* the executor's work queue; the caller awaits the future.
ExtractFeatures(content, filename) ==
    /\ libs # "unloaded"
    /\ Len(tasks) < MaxRequests
    /\ tasks' = Append(tasks, [content |-> content, filename |-> filename,
                               state |-> "queued", result |-> NoResult])
    /\ UNCHANGED <<libs, rec, sim, cacheVars, audioVars, prefVars,
                  requestVars>>

\* Variant of the pool that gives every request a thread of its own.
WorkerFreeAlways == TRUE

\* ThreadPoolExecutor(max_workers=4): a queued call is taken only by one of
\* at most four worker threads that is not running a call.
WorkerFree == Cardinality(Running) < MaxWorkers

\* A free worker takes the oldest queued call.
WorkerStart ==
    /\ Queued # {}
    /\ WorkerFree
    /\ LET i == CHOOSE j \in Queued : \A k \in Queued : j <= k IN
            tasks' = [tasks EXCEPT ![i].state = "running"]
    /\ UNCHANGED <<libs, rec, sim, cacheVars, audioVars, prefVars,
                  requestVars>>

\* Variant of the dispatch in which a worker reads the arguments of the
\* request submitted last.
TaskArgsShared(i) == tasks[Len(tasks)]

\* The arguments a worker runs call i with: the ones bound at submission.
TaskArgs(i) == tasks[i]

\* The worker runs _extract_features_sync on its arguments and completes
\* the future with what it returned, or with the exception it raised.
WorkerFinish(i) ==
    /\ i \in Running
    /\ tasks' = [tasks EXCEPT
                    ![i].state = "done",
                    ![i].result = ExtractFeaturesSync(TaskArgs(i).content,
                                                      TaskArgs(i).filename)]
    /\ UNCHANGED <<libs, rec, sim, cacheVars, audioVars, prefVars,
                  requestVars>>

\* -------------------------------------------------- recommendation engine
\* services/recommendation_engine.py.  Scores are kept in thousandths, the
\* precision of round(score, 3).
MaxLimit == 50
MaxReturned == 10

Limits == 1..MaxLimit
Hours == 0..23

\* user_preferences: none given (the router passes None), or a preferences
\* row.  energyRange.min is in thousandths.
PreferenceInputs ==
    {[given |-> FALSE, genrePreferences |-> <<>>,
      tempoRange |-> [min |-> 60, max |-> 180], energyRange |-> [min |-> 0]],
     [given |-> TRUE, genrePreferences |-> <<>>,
      tempoRange |-> [min |-> 60, max |-> 180], energyRange |-> [min |-> 0]],
     [given |-> TRUE, genrePreferences |-> <<"jazz", "blues">>,
      tempoRange |-> [min |-> 80, max |-> 120], energyRange |-> [min |-> 300]],
     [given |-> TRUE, genrePreferences |-> <<"rock", "jazz", "blues">>,
      tempoRange |-> [min |-> 60, max |-> 180], energyRange |-> [min |-> 0]]}

\* recent_interactions, by actionType: none (None or an empty list), one,
\* and a log in which two types tie.
InteractionLogs ==
    {<<>>, <<"join">>, <<"play", "join", "join", "play">>,
     <<"play", "join", "join">>}

\* Variant of the choice among equals: the type met last.
MostCommonInteractionLast(interactions) ==
    LET types == {interactions[k] : k \in DOMAIN interactions}
        count(t) == Cardinality({k \in DOMAIN interactions : interactions[k] = t})
        first(t) == CHOOSE k \in DOMAIN interactions :
                        /\ interactions[k] = t
                        /\ \A j \in 1..(k - 1) : interactions[j] # t
    IN
    CHOOSE t \in types :
        \A u \in types :
            \/ count(t) > count(u)
            \/ count(t) = count(u) /\ first(t) >= first(u)

\* max(interaction_counts.keys(), key=count): the type counted most often,
\* the one met first among equals.
MostCommonInteraction(interactions) ==
    LET types == {interactions[k] : k \in DOMAIN interactions}
        count(t) == Cardinality({k \in DOMAIN interactions : interactions[k] = t})
        first(t) == CHOOSE k \in DOMAIN interactions :
                        /\ interactions[k] = t
                        /\ \A j \in 1..(k - 1) : interactions[j] # t
    IN
    CHOOSE t \in types :
        \A u \in types :
            \/ count(t) > count(u)
            \/ count(t) = count(u) /\ first(t) <= first(u)

\* _analyze_interaction_patterns: {} for no interactions, else the summary
\* with active_hours = 9 <= current_hour <= 23.
AnalyzeInteractionPatterns(interactions, hour) ==
    IF interactions = <<>> THEN EmptyDict
    ELSE [most_common_interaction |-> MostCommonInteraction(interactions),
          active_hours |-> (9 <= hour /\ hour <= 23)]

Prefix(s, n) == SubSeq(s, 1, IF Len(s) < n THEN Len(s) ELSE n)

\* The genres the scorer works with: the row's genrePreferences, or
\* ["electronic", "ambient"] when no preferences are given.
PreferredGenres(user_preferences) ==
    IF user_preferences.given THEN user_preferences.genrePreferences
    ELSE <<"electronic", "ambient">>

\* The score of the candidate at 0-based position i.
Score(i, preferred_genres, interaction_patterns) ==
    900 - (i * 50)
        + (IF preferred_genres # <<>> THEN 100 ELSE 0)
        + (IF DictGet(interaction_patterns, "active_hours", FALSE)
           THEN 50 ELSE 0)

\* The list get_room_recommendations returns: min(limit, 10) candidates.
Recommendations(user, limit, user_preferences, interactions, hour) ==
    LET preferred_genres == PreferredGenres(user_preferences)
        interaction_patterns == AnalyzeInteractionPatterns(interactions, hour)
        n == IF limit < MaxReturned THEN limit ELSE MaxReturned
    IN
    [k \in 1..n |->
        [room_id |-> <<"rec_room", user, k>>,
         score |-> Score(k - 1, preferred_genres, interaction_patterns),
         reasoning |-> IF preferred_genres # <<>>
                       THEN <<"Matches your preference for">>
                                \o Prefix(preferred_genres, 2)
                       ELSE <<"Based on your preferences">>,
         participants |-> 3 + ((k - 1) % 8),
         genres |-> IF preferred_genres # <<>> THEN Prefix(preferred_genres, 2)
                    ELSE <<"electronic", "ambient">>,
         tempo_range |-> <<user_preferences.tempoRange.min,
                           user_preferences.tempoRange.max>>,
         energy_level |-> IF user_preferences.given
                          THEN user_preferences.energyRange.min ELSE 500]]

NoRecommendation ==
    [op |-> "none", user |-> "", limit |-> 0,
     preferences |-> [given |-> FALSE, genrePreferences |-> <<>>,
                      tempoRange |-> [min |-> 60, max |-> 180],
                      energyRange |-> [min |-> 0]],
     interactions |-> <<>>, hour |-> 0, patterns |-> EmptyDict,
     result |-> <<>>]

\* get_room_recommendations, called with the hour datetime.now() shows.
GetRoomRecommendations(user, limit, user_preferences, interactions, hour) ==
    /\ rec.op = "none"
    /\ rec' = [op |-> "recommend", user |-> user, limit |-> limit,
               preferences |-> user_preferences,
               interactions |-> interactions, hour |-> hour,
               patterns |-> AnalyzeInteractionPatterns(interactions, hour),
               result |-> Recommendations(user, limit, user_preferences,
                                          interactions, hour)]
    /\ UNCHANGED <<extractVars, sim, cacheVars, audioVars, prefVars,
                  requestVars>>

\* The caller has taken the list; the engine keeps nothing of the call.
ReturnRecommendations ==
    /\ rec.op = "recommend"
    /\ rec' = NoRecommendation
    /\ UNCHANGED <<extractVars, sim, cacheVars, audioVars, prefVars,
                  requestVars>>

\* ------------------------------------------------------ cosine similarity
\* AudioAnalyzer.cosine_similarity (with numpy and without) and
\* calculate_cosine_similarity of database/operations.py, in exact
\* arithmetic: a result is the quotient num / sqrt(den2), with
\* den2 = |v1|^2 * |v2|^2, so that no root has to be rounded.
MaxVectorLen == 2

Components == {-1, 0, 1, 2}
Vectors == UNION {[1..n -> Components] : n \in 0..MaxVectorLen}

\* sum(a * b for a, b in zip(v1, v2)): zip stops at the shorter vector.
DotProduct(v1, v2) ==
    LET n == IF Len(v1) < Len(v2) THEN Len(v1) ELSE Len(v2) IN
    SumSeq([k \in 1..n |-> v1[k] * v2[k]])

\* Variant of the squared norm that adds the components unsquared.
SquaredNormLinear(v) == SumSeq(v)

\* sum(a * a for a in v), the square of the norm.
SquaredNorm(v) == SumSeq([k \in DOMAIN v |-> v[k] * v[k]])

ReturnedZero == [status |-> "returned", num |-> 0, den2 |-> 1]
RaisedError == [status |-> "raised", num |-> 0, den2 |-> 1]

\* dot_product / (norm1 * norm2), or 0.0 when a norm is zero.
Quotient(v1, v2) ==
    IF SquaredNorm(v1) = 0 \/ SquaredNorm(v2) = 0 THEN ReturnedZero
    ELSE [status |-> "returned", num |-> DotProduct(v1, v2),
          den2 |-> SquaredNorm(v1) * SquaredNorm(v2)]

\* The numpy branch of cosine_similarity: np.dot comes first and raises
\* ValueError for one-dimensional arrays of different lengths.
CosineSimilarityNumpy(vector1, vector2) ==
    IF Len(vector1) # Len(vector2) THEN RaisedError
    ELSE Quotient(vector1, vector2)

\* The branch without numpy: 0.0 for different lengths.
CosineSimilarityFallback(vector1, vector2) ==
    IF Len(vector1) # Len(vector2) THEN ReturnedZero
    ELSE Quotient(vector1, vector2)

\* AudioAnalyzer.cosine_similarity
CosineSimilarity(vector1, vector2) ==
    IF libs = "available" THEN CosineSimilarityNumpy(vector1, vector2)
    ELSE CosineSimilarityFallback(vector1, vector2)

\* calculate_cosine_similarity: 0.0 for different lengths, and 0.0 from the
\* bare except for anything raised.
CalculateCosineSimilarity(vec1, vec2) ==
    IF Len(vec1) # Len(vec2) THEN ReturnedZero
    ELSE Quotient(vec1, vec2)

NoSimilarity ==
    [op |-> "none", v1 |-> <<>>, v2 |-> <<>>, out |-> ReturnedZero]

\* A call of the analyzer's method, which needs the module imported.
AnalyzerSimilarity(vector1, vector2) ==
    /\ sim.op = "none"
    /\ libs # "unloaded"
    /\ sim' = [op |-> "cosine_similarity", v1 |-> vector1, v2 |-> vector2,
               out |-> CosineSimilarity(vector1, vector2)]
    /\ UNCHANGED <<extractVars, rec, cacheVars, audioVars, prefVars,
                  requestVars>>

\* A call of the database layer's function.
DatabaseSimilarity(vec1, vec2) ==
    /\ sim.op = "none"
    /\ sim' = [op |-> "calculate_cosine_similarity", v1 |-> vec1, v2 |-> vec2,
               out |-> CalculateCosineSimilarity(vec1, vec2)]
    /\ UNCHANGED <<extractVars, rec, cacheVars, audioVars, prefVars,
                  requestVars>>

\* The caller has the result (or the exception); nothing is kept.
ReturnSimilarity ==
    /\ sim.op # "none"
    /\ sim' = NoSimilarity
    /\ UNCHANGED <<extractVars, rec, cacheVars, audioVars, prefVars,
                  requestVars>>


\* ------------------------------------------------------ similarity matrix
\* AudioAnalyzer.calculate_similarities over stored records.  Vector
\* components are kept in tenths (0.5 is 5); stored MFCC means are taken to
\* be in tenths already.
MaxRecords == 2

\* Dictionaries a caller of save_audio_features may hand in besides the
\* extractor's results: one without most keys, one with a short MFCC list.
SparseFeatureDicts ==
    {[basic |-> [duration |-> 30]],
     [mfcc |-> [mean |-> <<1, 2>>], basic |-> [tempo |-> 90]]}

\* What the analyze endpoints save: the result of an extraction.
AnalyzedFeatures ==
    {ExtractFeaturesSync(c, f).features : c \in AudioContents, f \in Filenames}

\* Records of the earlier table model (database/models_old.py), which have
\* a feature_vector attribute: a zero vector, a vector of another length,
\* and an empty one.
LegacyRecords ==
    <<[feature_vector |-> <<0, 0>>],
      [feature_vector |-> <<3, 4, 0>>],
      [feature_vector |-> <<>>, tempo |-> 100]>>

\* getattr(features_model, column, default) or default.  A tempo or duration
\* column holds None exactly when save found no such key in the basic
\* dictionary it also stored as rhythmFeatures.
ColumnOr(m, column, default) ==
    IF column \notin DOMAIN m THEN default
    ELSE IF column \in {"tempo", "duration"}
            /\ column \notin DOMAIN DictGet(m, "rhythmFeatures", EmptyDict)
         THEN default
    ELSE IF m[column] = 0 THEN default
    ELSE m[column]

\* The ten MFCC components: the first ten stored means, padded with zeros.
MfccSubset(m) ==
    LET means == DictGet(DictGet(m, "mfccFeatures", EmptyDict), "mean", <<>>) IN
    [k \in 1..10 |-> IF k <= Len(means) THEN means[k] ELSE 0]

\* _construct_vector_from_features: tempo, duration, energy, loudness,
\* valence, danceability, ten MFCC means and three spectral means.
ConstructVectorFromFeatures(m) ==
    LET spectral == DictGet(m, "spectralFeatures", EmptyDict) IN
    <<(ColumnOr(m, "tempo", 120) * 10) \div 200,
      (ColumnOr(m, "duration", 180) * 10) \div 300,
      ColumnOr(m, "energy", 500) \div 100,
      ((ColumnOr(m, "loudness", 0) + 60) * 10) \div 60,
      ColumnOr(m, "valence", 5),
      ColumnOr(m, "danceability", 5)>>
        \o MfccSubset(m)
        \o (IF spectral # EmptyDict
            THEN <<(DictGet(spectral, "centroid_mean", 2000) * 10) \div 8000,
                   (DictGet(spectral, "rolloff_mean", 4000) * 10) \div 8000,
                   (DictGet(spectral, "bandwidth_mean", 1500) * 10) \div 4000>>
            ELSE <<2, 5, 3>>)

\* The vector calculate_similarities compares a record by: its
\* feature_vector attribute when it has one that is not empty, else the
\* reconstruction.
VectorOf(m) ==
    IF DictGet(m, "feature_vector", <<>>) # <<>> THEN m.feature_vector
    ELSE ConstructVectorFromFeatures(m)

ReturnedOne == [status |-> "returned", num |-> 1, den2 |-> 1]
ReturnedFlat == [status |-> "returned", num |-> 3, den2 |-> 100]

\* Variant of the diagonal that computes the similarity of a vector with
\* itself.
SelfSimilarityComputed(v) == CosineSimilarity(v, v)

\* if i == j: similarity = 1.0
SelfSimilarity(v) == ReturnedOne

\* The matrix of the except branch: 1.0 on the diagonal, 0.3 elsewhere.
PlaceholderMatrix(n) ==
    [i \in 1..n |-> [j \in 1..n |-> IF i = j THEN ReturnedOne ELSE ReturnedFlat]]

\* Variant of calculate_similarities without the exception handler.
SimilaritiesUnguarded(features_list) ==
    LET vectors == [k \in DOMAIN features_list |-> VectorOf(features_list[k])]
        n == Len(vectors)
        matrix == [i \in 1..n |-> [j \in 1..n |->
                      IF i = j THEN SelfSimilarity(vectors[i])
                      ELSE CosineSimilarity(vectors[i], vectors[j])]]
        raised == \E i, j \in 1..n : matrix[i][j].status = "raised"
    IN
    [status |-> IF raised THEN "raised" ELSE "returned",
     path |-> "normal", vectors |-> vectors, matrix |-> matrix]

\* calculate_similarities: the vectors, then the matrix row by row; an
\* exception raised on the way is answered with the placeholder matrix.
Similarities(features_list) ==
    LET vectors == [k \in DOMAIN features_list |-> VectorOf(features_list[k])]
        n == Len(vectors)
        matrix == [i \in 1..n |-> [j \in 1..n |->
                      IF i = j THEN SelfSimilarity(vectors[i])
                      ELSE CosineSimilarity(vectors[i], vectors[j])]]
        raised == \E i, j \in 1..n : matrix[i][j].status = "raised"
    IN
    IF raised
    THEN [status |-> "returned", path |-> "fallback", vectors |-> vectors,
          matrix |-> PlaceholderMatrix(Len(features_list))]
    ELSE [status |-> "returned", path |-> "normal", vectors |-> vectors,
          matrix |-> matrix]

\* The records a caller can pass: rows of audio_features and legacy records,
\* named by where they are.
StoredRecords ==
    {[legacy |-> FALSE, i |-> i] : i \in DOMAIN features}
        \cup {[legacy |-> TRUE, i |-> i] : i \in DOMAIN LegacyRecords}

RecordAt(r) == IF r.legacy THEN LegacyRecords[r.i] ELSE features[r.i]

NoMatrix == [op |-> "none", list |-> <<>>,
             out |-> [status |-> "returned", path |-> "normal",
                      vectors |-> <<>>, matrix |-> <<>>]]

\* A call of calculate_similarities, which needs the module imported.
CalculateSimilarities(features_list) ==
    /\ mat.op = "none"
    /\ libs # "unloaded"
    /\ mat' = [op |-> "calculate_similarities", list |-> features_list,
               out |-> Similarities(features_list)]
    /\ UNCHANGED <<extractVars, rec, sim, anl, gets, put, cacheVars,
                   audioVars, prefVars>>

\* The caller has the matrix; the analyzer keeps nothing of the call.
ReturnSimilarities ==
    /\ mat.op # "none"
    /\ mat' = NoMatrix
    /\ UNCHANGED <<extractVars, rec, sim, anl, gets, put, cacheVars,
                   audioVars, prefVars>>

\* ------------------------------------------------------- analyze endpoint
\* POST /audio/analyze of routers/audio.py: the upload is checked, analysed
\* and, when an audio_file_id came with it, saved in the request's session.
NoAudioFileId == ""

\* The uploads of the analyze requests: one librosa cannot read, one it can.
UploadedContents == {"empty", "tone"}

NoAnalysis == [op |-> "none", session |-> "", id |-> NoAudioFileId,
               status |-> "", features |-> EmptyDict, fault |-> FALSE]

\* The response of the except branch without the inner handler: a failed
\* save or commit reaches the outer handler, which answers 500.
AnalyzeSaveFailedUnguarded(s, r, fault) ==
    [op |-> "analyze", session |-> s, id |-> r.id, status |-> "500",
     features |-> EmptyDict, fault |-> fault]

\* except Exception as db_error: await db.rollback(), a log line, and the
\* handler goes on to its return statement.
AnalyzeSaveFailed(s, r, fault) ==
    [op |-> "analyze", session |-> s, id |-> r.id, status |-> "success",
     features |-> r.feat, fault |-> fault]

\* analyze_audio up to the first database round trip.  A file that is not
\* audio is refused with 400; without audio_file_id the features are
\* returned at once; else save_audio_features runs its existence check and
\* leaves the update or the new row pending in the session.
AnalyzeCheck(s, audio, id, content, filename) ==
    LET existing == ExistingFeatures(id)
        computed == ExtractFeaturesSync(content, filename).features
    IN
    /\ libs # "unloaded"
    /\ sess[s].pc = "idle"
    /\ Cardinality(existing) <= 1
    /\ IF ~audio THEN
            /\ anl' = [NoAnalysis EXCEPT !.op = "analyze", !.session = s,
                                         !.status = "400"]
            /\ sess' = sess
       ELSE IF id = NoAudioFileId THEN
            /\ anl' = [NoAnalysis EXCEPT !.op = "analyze", !.session = s,
                                         !.status = "success",
                                         !.features = computed]
            /\ sess' = sess
       ELSE
            /\ anl' = anl
            /\ sess' = [sess EXCEPT ![s] =
                    [pc |-> "analyzed", id |-> id, feat |-> computed,
                     existing |-> IF existing = {} THEN 0
                                  ELSE CHOOSE j \in existing : TRUE,
                     at |-> now, resp |-> "none"]]
    /\ UNCHANGED <<features, lastSave, cacheVars, prefVars, extractVars, rec,
                   sim, mat, gets, put>>

\* analyze_audio from db.commit() on.  The commit raises when the database
\* fails (fault) or when the pending INSERT meets a row with the same
\* audioFileId; then nothing is written.  The response carries the computed
\* features either way.
AnalyzeCommit(s, fault) ==
    LET r == sess[s] IN
    /\ r.pc = "analyzed"
    /\ IF fault \/ (r.existing = 0 /\ UniqueViolation(r.id)) THEN
            /\ features' = features
            /\ lastSave' = [NoSave EXCEPT !.op = "save", !.id = r.id,
                                !.feat = r.feat, !.status = "error",
                                !.branch = IF r.existing = 0 THEN "insert"
                                           ELSE "update"]
            /\ anl' = AnalyzeSaveFailed(s, r, fault)
       ELSE IF r.existing # 0 THEN
            /\ features' = [features EXCEPT ![r.existing] = UpdateFeatures(@, r.feat, r.at)]
            /\ lastSave' = [NoSave EXCEPT !.op = "save", !.id = r.id,
                                !.feat = r.feat, !.status = "ok",
                                !.row = r.existing, !.branch = "update"]
            /\ anl' = [op |-> "analyze", session |-> s, id |-> r.id,
                       status |-> "success", features |-> r.feat,
                       fault |-> fault]
       ELSE
            /\ features' = Append(features, AudioFeatures(r.id, r.feat))
            /\ lastSave' = [NoSave EXCEPT !.op = "save", !.id = r.id,
                                !.feat = r.feat, !.status = "ok",
                                !.row = Len(features) + 1, !.branch = "insert"]
            /\ anl' = [op |-> "analyze", session |-> s, id |-> r.id,
                       status |-> "success", features |-> r.feat,
                       fault |-> fault]
    /\ sess' = [sess EXCEPT ![s] = [IdleSession EXCEPT !.resp = anl'.status]]
    /\ UNCHANGED <<cacheVars, prefVars, extractVars, rec, sim, mat, gets,
                   put>>

\* ------------------------------------------------- recommendations router
\* routers/recommendations.py, the router main.py mounts.
RouterLimits == {1, MaxLimit}
RouterHours == {8, 23}

\* user_preferences=None, recent_interactions=None
NoPreferences ==
    [given |-> FALSE, genrePreferences |-> <<>>,
     tempoRange |-> [min |-> 60, max |-> 180], energyRange |-> [min |-> 0]]

\* POST /rooms: the engine is called without preferences and without
\* interactions; the handler reads and writes no table.
RoomsRequest(user, limit, hour) ==
    GetRoomRecommendations(user, limit, NoPreferences, <<>>, hour)

\* PUT /preferences/{user_id}: the maps of the service plus one with a
\* tempo_range of one number and one with a single allowed key.
BlankUser == " "

RequestMaps ==
    UpdateMaps \cup {[tempo_range |-> <<80>>], [discovery_mode |-> "explore"]}

ValidKeys ==
    {"preferred_genres", "preferred_tempo_range", "activity_level",
     "genre_preferences", "tempo_range", "energy_range", "discovery_mode",
     "confidence_score"}

\* The checks that raise HTTPException(status_code=422).
RaisesValidationError(user, updates) ==
    \/ user = BlankUser
    \/ updates = EmptyDict
    \/ \E k \in DOMAIN updates : k \notin ValidKeys
    \/ "tempo_range" \in DOMAIN updates /\ Len(updates.tempo_range) # 2

NoPut == [op |-> "none", user |-> "", updates |-> EmptyDict, status |-> ""]

\* update_user_preferences.  The checks raise inside the try block, whose
\* only handler is 'except Exception': it rolls back and raises
\* HTTPException(500).  A request that passes runs update_preferences and
\* commits.
UpdateUserPreferences(user, updates) ==
    LET existing == ExistingPreferences(user)
        row == IF existing = {} THEN DefaultPreferences(user)
               ELSE prefs[CHOOSE j \in existing : TRUE]
        i == IF existing = {} THEN Len(prefs) + 1
             ELSE CHOOSE j \in existing : TRUE
        set == SetAttributes(row, updates)
        new == [set EXCEPT !.lastUpdated = now,
                           !.interactionCount = @ + 1]
    IN
    /\ IF RaisesValidationError(user, updates) THEN
            /\ prefs' = prefs
            /\ lastPref' = lastPref
            /\ put' = [op |-> "put", user |-> user, updates |-> updates,
                       status |-> "500"]
       ELSE
            /\ Cardinality(existing) <= 1
            /\ row.interactionCount < MaxInteractions
            /\ prefs' = IF existing = {} THEN Append(prefs, new)
                        ELSE [prefs EXCEPT ![i] = new]
            /\ lastPref' = [NoPrefCall EXCEPT !.op = "update", !.user = user,
                                !.status = "ok", !.id = i,
                                !.created = (existing = {})]
            /\ put' = [op |-> "put", user |-> user, updates |-> updates,
                       status |-> "200"]
    /\ UNCHANGED <<cacheVars, audioVars, extractVars, rec, sim, mat, anl,
                   gets>>

\* ------------------------------------------------------- concurrent gets
\* get_cached_recommendations in sessions of their own.  The SELECT loads
\* the row into the session; hitCount += 1 sets the loaded object's
\* attribute to the loaded value plus one, and the caller's commit writes
\* that value with an UPDATE.
IdleGet == [pc |-> "idle", id |-> 0, hit |-> 0, at |-> 0]

\* The SELECT and the in-session update of the loaded row.  No row: the
\* call returns None and the session has nothing to write.
GetRead(s, user, type) ==
    LET found == CacheQuery(user, type) IN
    /\ gets[s].pc = "idle"
    /\ Cardinality(found) <= 1
    /\ \A i \in found : cache[i].hitCount < MaxHits
    /\ gets' = IF found = {} THEN [gets EXCEPT ![s] = IdleGet]
               ELSE [gets EXCEPT ![s] =
                        [pc |-> "read", id |-> CHOOSE j \in found : TRUE,
                         hit |-> cache[CHOOSE j \in found : TRUE].hitCount,
                         at |-> now]]
    /\ UNCHANGED <<cacheVars, audioVars, prefVars, extractVars, rec, sim, mat,
                   anl, put>>

\* The caller's commit: UPDATE recommendation_cache SET hitCount = <loaded
\* value + 1>, lastAccessed = <time of the call> WHERE id = <row>.
GetCommit(s) ==
    LET g == gets[s] IN
    /\ g.pc = "read"
    /\ cache' = [cache EXCEPT ![g.id] =
                    [@ EXCEPT !.hitCount = g.hit + 1, !.lastAccessed = g.at]]
    /\ gets' = [gets EXCEPT ![s] = [g EXCEPT !.pc = "done"]]
    /\ last' = [NoCall EXCEPT !.op = "get", !.status = "hit", !.id = g.id,
                    !.before = g.hit]
    /\ UNCHANGED <<now, audioVars, prefVars, extractVars, rec, sim, mat, anl,
                   put>>

\* The session is closed at the end of the request.
GetClose(s) ==
    /\ gets[s].pc = "done"
    /\ gets' = [gets EXCEPT ![s] = IdleGet]
    /\ UNCHANGED <<cacheVars, audioVars, prefVars, extractVars, rec, sim, mat,
                   anl, put>>


\* ----------------------------------------------------- specifications
Init ==
    /\ now = 0
    /\ cache = <<>>
    /\ last = NoCall
    /\ features = <<>>
    /\ sess = [s \in Sessions |-> IdleSession]
    /\ lastSave = NoSave
    /\ prefs = <<>>
    /\ lastPref = NoPrefCall
    /\ libs = "unloaded"
    /\ tasks = <<>>
    /\ rec = NoRecommendation
    /\ sim = NoSimilarity
    /\ mat = NoMatrix
    /\ anl = NoAnalysis
    /\ put = NoPut
    /\ gets = [s \in Sessions |-> IdleGet]

\* The cache service, one call at a time.
CacheSpec == Init /\ [][CacheNext]_vars

\* The upsert, one committed call at a time.
SaveNext ==
    \/ \E id \in AudioIds, f \in FeatureDicts : SaveAudioFeatures(id, f)
    \/ Tick

SaveSpec == Init /\ [][SaveNext]_vars

\* Two sessions serving analyze-and-save requests, interleaved at the
\* database round trips, within one clock hour.
ConcurrentSaveNext ==
    \/ \E s \in Sessions, id \in AudioIds, f \in FeatureDicts : SaveCheck(s, id, f)
    \/ \E s \in Sessions : SaveCommit(s)

ConcurrentSaveSpec == Init /\ [][ConcurrentSaveNext]_vars

\* The preferences service, one committed call at a time.
PrefNext ==
    \/ \E u \in Users : GetOrCreatePreferences(u)
    \/ \E u \in Users, m \in UpdateMaps : UpdatePreferences(u, m)
    \/ Tick

PrefSpec == Init /\ [][PrefNext]_vars

\* The analyzer: the import, requests arriving, workers taking and finishing
\* them in any interleaving.
ExtractNext ==
    \/ \E ok \in BOOLEAN : ImportAudioLibs(ok)
    \/ \E c \in AudioContents, f \in Filenames : ExtractFeatures(c, f)
    \/ WorkerStart
    \/ \E i \in DOMAIN tasks : WorkerFinish(i)

ExtractSpec == Init /\ [][ExtractNext]_vars

\* The recommendation engine, one call at a time.
RecommendNext ==
    \/ /\ rec.op = "none"
       /\ \E u \in Users, l \in Limits, p \in PreferenceInputs,
             x \in InteractionLogs, h \in Hours :
               GetRoomRecommendations(u, l, p, x, h)
    \/ ReturnRecommendations

RecommendSpec == Init /\ [][RecommendNext]_vars

\* The similarity functions, one call at a time, with numpy present or not.
SimilarityNext ==
    \/ \E ok \in BOOLEAN : ImportAudioLibs(ok)
    \/ /\ sim.op = "none"
       /\ \E a, b \in Vectors : AnalyzerSimilarity(a, b)
    \/ /\ sim.op = "none"
       /\ \E a, b \in Vectors : DatabaseSimilarity(a, b)
    \/ ReturnSimilarity

SimilaritySpec == Init /\ [][SimilarityNext]_vars

\* Saves of analysis results and of sparse dictionaries, and similarity
\* matrices over what is stored, with numpy present or not.
MatrixNext ==
    \/ \E ok \in BOOLEAN : ImportAudioLibs(ok)
    \/ /\ libs # "unloaded"
       /\ \E id \in AudioIds, f \in AnalyzedFeatures \cup SparseFeatureDicts :
               SaveAudioFeatures(id, f)
    \/ /\ mat.op = "none"
       /\ \E n \in 1..MaxRecords : \E l \in [1..n -> StoredRecords] :
               CalculateSimilarities([k \in 1..n |-> RecordAt(l[k])])
    \/ ReturnSimilarities

MatrixSpec == Init /\ [][MatrixNext]_vars

\* Two sessions serving analyze requests, interleaved at the database round
\* trips, with the audio libraries present or not.
AnalyzeNext ==
    \/ \E ok \in BOOLEAN : ImportAudioLibs(ok)
    \/ \E s \in Sessions, audio \in BOOLEAN,
          id \in AudioIds \cup {NoAudioFileId}, c \in UploadedContents,
          f \in Filenames : AnalyzeCheck(s, audio, id, c, f)
    \/ \E s \in Sessions, fault \in BOOLEAN : AnalyzeCommit(s, fault)

AnalyzeSpec == Init /\ [][AnalyzeNext]_vars

\* The mounted recommendations router: room requests and preference
\* updates, with the clock moving.
RouterNext ==
    \/ /\ rec.op = "none"
       /\ \E u \in Users, l \in RouterLimits, h \in RouterHours :
               RoomsRequest(u, l, h)
    \/ ReturnRecommendations
    \/ \E u \in Users \cup {BlankUser}, m \in RequestMaps :
           UpdateUserPreferences(u, m)
    \/ Tick

RouterSpec == Init /\ [][RouterNext]_vars

\* Entries written for one user, and two sessions reading them, interleaved
\* at the database round trips.
ConcurrentGetNext ==
    \/ \E r \in CandidateLists, h \in TtlHours :
           CacheRecommendations("u1", "rooms", r, h)
    \/ \E s \in Sessions, u \in Users : GetRead(s, u, "rooms")
    \/ \E s \in Sessions : GetCommit(s)
    \/ \E s \in Sessions : GetClose(s)
    \/ Tick

ConcurrentGetSpec == Init /\ [][ConcurrentGetNext]_vars

\* ------------------------------------------------- recommendation cache
\* The rows a call for (user, type) may use: same user, same type, not
\* expired, valid.
Usable(i) == cache[i].expiresAt > now /\ cache[i].isValid = TRUE

LiveFor(user, type) ==
    {i \in DOMAIN cache :
        cache[i].userId = user /\ cache[i].contextType = type /\ Usable(i)}

LiveForUser(user) ==
    {i \in DOMAIN cache : cache[i].userId = user /\ Usable(i)}

Max(S) == CHOOSE m \in S : \A n \in S : n <= m

\* C1: a get returns a row only if the row is unexpired (now < expiresAt)
\* and valid at the time of the call; when every row of the user is expired
\* or invalid the get returns absent.
CacheGetOnlyUsable ==
    last.op = "get" =>
        /\ last.status = "hit" => Usable(last.id)
        /\ LiveForUser(last.user) = {} => last.status = "miss"

\* C1 witness: a get has returned absent although the key has an expired
\* row that is still flagged valid and an unexpired row flagged invalid.
CacheGetOnlyUsableWitness ==
    /\ last.op = "get" /\ last.status = "miss"
    /\ \E i \in DOMAIN cache :
            /\ cache[i].userId = last.user /\ cache[i].contextType = last.type
            /\ cache[i].expiresAt < now /\ cache[i].isValid = TRUE
    /\ \E i \in DOMAIN cache :
            /\ cache[i].userId = last.user /\ cache[i].contextType = last.type
            /\ cache[i].expiresAt > now /\ cache[i].isValid = FALSE

\* C2: the cache is keyed by (user, type): a get for (u, t) returns only a
\* row put for user u and type t, and returns absent when no usable row of
\* that key exists.
CacheKeyedByUserAndType ==
    last.op = "get" =>
        /\ last.status = "hit" =>
                /\ cache[last.id].userId = last.user
                /\ cache[last.id].contextType = last.type
        /\ LiveFor(last.user, last.type) = {} => last.status = "miss"

\* C3: last write wins per key: when the usable rows of the user all carry
\* the requested type and there is at least one, the get succeeds and
\* returns the row written last.
CacheLastWriteWins ==
    (/\ last.op = "get"
     /\ LiveFor(last.user, last.type) # {}
     /\ LiveForUser(last.user) = LiveFor(last.user, last.type)) =>
        /\ last.status = "hit"
        /\ last.id = Max(LiveFor(last.user, last.type))

\* C4: a get that finds a row raises that row's hit counter by exactly 1
\* and does not move lastAccessed backwards, two consecutive gets of the
\* same row raise the counter by exactly 2, and no get changes the counter
\* of any other row; a get that returns no row changes no counter.
CacheHitAccounting ==
    [][last'.op = "get" =>
        /\ DOMAIN cache' = DOMAIN cache
        /\ \A i \in DOMAIN cache :
            IF last'.status = "hit" /\ i = last'.id
            THEN /\ cache'[i].hitCount = cache[i].hitCount + 1
                 /\ cache'[i].lastAccessed >= cache[i].lastAccessed
                 /\ (last.op = "get" /\ last.status = "hit" /\ last.id = i) =>
                        cache'[i].hitCount = last.before + 2
            ELSE cache'[i].hitCount = cache[i].hitCount
    ]_cacheVars

\* C4 witness: two consecutive gets have hit the same row, the second at a
\* later time than the row's creation.
CacheHitAccountingWitness ==
    /\ last.op = "get" /\ last.status = "hit" /\ last.before = 1
    /\ cache[last.id].hitCount = 2
    /\ cache[last.id].lastAccessed > cache[last.id].createdAt

\* C5: expiry is absolute: a put sets expiresAt to creation time + ttl, and
\* no get changes expiresAt, createdAt, the validity flag or the candidate
\* list of any row.
CacheExpiryAbsolute ==
    [][/\ last'.op = "put" =>
            /\ cache'[last'.id].createdAt = now
            /\ cache'[last'.id].expiresAt = cache'[last'.id].createdAt + last'.ttl
       /\ last'.op = "get" =>
            /\ DOMAIN cache' = DOMAIN cache
            /\ \A i \in DOMAIN cache :
                /\ cache'[i].expiresAt = cache[i].expiresAt
                /\ cache'[i].createdAt = cache[i].createdAt
                /\ cache'[i].isValid = cache[i].isValid
                /\ cache'[i].recommendedRooms = cache[i].recommendedRooms
    ]_cacheVars

\* C5 witness: a row has been read twice, the last time after its creation
\* time, and still expires at creation time + ttl.
CacheExpiryAbsoluteWitness ==
    /\ last.op = "get" /\ last.status = "hit"
    /\ cache[last.id].hitCount = 2
    /\ now > cache[last.id].createdAt
    /\ cache[last.id].expiresAt = cache[last.id].createdAt + 2

\* C6: round trip: a get on the empty cache returns absent; a put stores
\* its candidates in a row whose counter is 0; the first get of that key
\* on the cache holding only that row, before expiry, returns the row with
\* exactly those candidates and hitCount 1.
CacheRoundTrip ==
    [][/\ (last'.op = "get" /\ cache = <<>>) => last'.status = "miss"
       /\ last'.op = "put" =>
            /\ cache'[last'.id].recommendedRooms = last'.rooms
            /\ cache'[last'.id].hitCount = 0
       /\ (/\ last'.op = "get"
           /\ Len(cache) = 1
           /\ cache[1].userId = last'.user
           /\ cache[1].contextType = last'.type
           /\ cache[1].hitCount = 0
           /\ Usable(1)) =>
                /\ last'.status = "hit"
                /\ last'.id = 1
                /\ last'.rooms = cache[1].recommendedRooms
                /\ cache'[1].recommendedRooms = cache[1].recommendedRooms
                /\ cache'[1].hitCount = 1
    ]_cacheVars

\* C6 witness: the only row of the cache was put with two candidates and
\* its first get, one hour later, has returned them.
CacheRoundTripWitness ==
    /\ last.op = "get" /\ last.status = "hit"
    /\ Len(cache) = 1
    /\ last.rooms = <<"r2", "r1">>
    /\ cache[1].hitCount = 1
    /\ now > cache[1].createdAt

\* C7: purgeExpired completes without error, removes every row whose
\* expiry has passed (expiresAt <= now) and leaves the other rows.
CachePurgeRemovesExpired ==
    last.op = "purge" =>
        /\ last.status = "ok"
        /\ \A i \in DOMAIN cache : cache[i].expiresAt > now

\* ------------------------------------------------- audio_features upsert
FeatureRowsOf(id) == {i \in DOMAIN features : features[i].audioFileId = id}

AtMostOneFeaturesPerAudio ==
    \A id \in AudioIds : Cardinality(FeatureRowsOf(id)) <= 1

\* C8: saving is an upsert keyed on the audio item id: there is at most one
\* record per id; a save for an id without a record inserts one, a save for
\* an id with a record updates that record in place, and afterwards the
\* record holds the feature vector and sub-features of that save.
SaveIsUpsert ==
    [][LET id == lastSave'.id
           f == lastSave'.feat
           r == lastSave'.row
       IN
       /\ lastSave'.status = "ok"
       /\ IF FeatureRowsOf(id) = {}
          THEN /\ lastSave'.branch = "insert"
               /\ Len(features') = Len(features) + 1
               /\ r = Len(features')
          ELSE /\ lastSave'.branch = "update"
               /\ Len(features') = Len(features)
               /\ r \in FeatureRowsOf(id)
       /\ \A i \in DOMAIN features : i # r => features'[i] = features[i]
       /\ features'[r].audioFileId = id
       /\ features'[r].embeddings =
            (IF "feature_vector" \in DOMAIN f THEN f.feature_vector ELSE <<>>)
       /\ features'[r].mfccFeatures =
            (IF "mfcc" \in DOMAIN f THEN f.mfcc ELSE EmptyDict)
       /\ features'[r].spectralFeatures =
            (IF "spectral" \in DOMAIN f THEN f.spectral ELSE EmptyDict)
       /\ features'[r].rhythmFeatures =
            (IF "basic" \in DOMAIN f THEN f.basic ELSE EmptyDict)
       /\ AtMostOneFeaturesPerAudio'
    ]_audioVars

\* C8 witness: both audio items have a record and the last save has
\* updated an existing record in place, at a later hour, with a new vector.
SaveIsUpsertWitness ==
    /\ lastSave.op = "save" /\ lastSave.branch = "update"
    /\ Len(features) = 2
    /\ features[lastSave.row].embeddings = <<1, 2, 3>>
    /\ features[lastSave.row].extractedAt > 0

\* C9: whatever the interleaving of two saves in two sessions, no save is
\* answered with a failure and the store holds exactly one record for the
\* saved id.
ConcurrentSaveNeverFails ==
    /\ AtMostOneFeaturesPerAudio
    /\ \A s \in Sessions :
            sess[s].resp # "none" =>
                /\ sess[s].resp = "success"
                /\ lastSave.op = "save" =>
                        Cardinality(FeatureRowsOf(lastSave.id)) = 1

\* ------------------------------------------------------ user_preferences
PrefRowsOf(user) == {i \in DOMAIN prefs : prefs[i].userId = user}

PrefUpdateCountsOne ==
    [][lastPref'.op = "update" =>
        LET u == lastPref'.user
            r == lastPref'.id
            before == IF PrefRowsOf(u) = {} THEN 0
                      ELSE prefs[CHOOSE i \in PrefRowsOf(u) : TRUE].interactionCount
        IN
        /\ lastPref'.status = "ok"
        /\ prefs'[r].userId = u
        /\ prefs'[r].interactionCount = before + 1
        /\ prefs'[r].lastUpdated = now
    ]_prefVars

\* C12: the confidence score of every stored record lies in [0, 1]
\* (0..100 hundredths).
PrefConfidenceInUnitRange ==
    \A i \in DOMAIN prefs :
        prefs[i].confidenceScore >= 0 /\ prefs[i].confidenceScore <= 100

\* -------------------------------------------------------- audio analyzer
DoneTasks == {i \in DOMAIN tasks : tasks[i].state = "done"}
RunningIn(t) == {i \in DOMAIN t : t[i].state = "running"}

ExtractVectorLengthFixed ==
    \A i \in DoneTasks :
        tasks[i].result.status = "returned" =>
            Len(tasks[i].result.features.feature_vector) = 45

\* C15: at most four extractions run at any time; a request beyond that
\* waits in the queue, and a request starts running only from the queue and
\* only when fewer than four are running.
PoolAtMostFourConcurrent ==
    [][/\ Cardinality(RunningIn(tasks')) <= 4
       /\ \A i \in DOMAIN tasks' :
            /\ i \notin DOMAIN tasks => tasks'[i].state = "queued"
            /\ (i \in RunningIn(tasks') /\ i \notin RunningIn(tasks)) =>
                    /\ i \in DOMAIN tasks
                    /\ tasks[i].state = "queued"
                    /\ Cardinality(RunningIn(tasks)) < 4
    ]_extractVars

\* C15 witness: four extractions are running and a fifth request waits.
PoolAtMostFourConcurrentWitness ==
    /\ Cardinality(RunningIn(tasks)) = 4
    /\ \E i \in DOMAIN tasks : tasks[i].state = "queued"

HasGenreSignal(p) == p.given /\ p.genrePreferences # <<>>
ReportsActiveHours(x, h) == x # <<>> /\ h >= 9 /\ h <= 23

\* C17: every candidate a call returns has a score within [0, 1]
\* (0..1000 thousandths), for any limit in 1..50, any or no preferences,
\* any or no interactions, at any hour.
RecommendScoreInUnitRange ==
    rec.op = "recommend" =>
        \A k \in DOMAIN rec.result :
            rec.result[k].score >= 0 /\ rec.result[k].score <= 1000

\* C18: the candidate at 0-based rank i scores 0.90 - 0.05 * i, plus 0.10
\* exactly when the user has a preferred genre, plus 0.05 exactly when the
\* interaction summary reports active hours, and nothing else; for genres
\* [jazz, blues], limit 3 and no interactions the scores are
\* [1.00, 0.95, 0.90].
RecommendScoreByRankAndBoosts ==
    rec.op = "recommend" =>
        /\ \A k \in DOMAIN rec.result :
                rec.result[k].score =
                    900 - 50 * (k - 1)
                        + (IF HasGenreSignal(rec.preferences) THEN 100 ELSE 0)
                        + (IF ReportsActiveHours(rec.interactions, rec.hour)
                           THEN 50 ELSE 0)
        /\ (/\ rec.preferences.given
            /\ rec.preferences.genrePreferences = <<"jazz", "blues">>
            /\ rec.limit = 3 /\ rec.interactions = <<>>) =>
                /\ Len(rec.result) = 3
                /\ rec.result[1].score = 1000
                /\ rec.result[2].score = 950
                /\ rec.result[3].score = 900

\* ------------------------------------------------------ cosine similarity
SumOfSquares(v) == SumSeq([k \in DOMAIN v |-> v[k] * v[k]])
SumOfProducts(a, b) == SumSeq([k \in DOMAIN a |-> a[k] * b[k]])

\* C19: whenever one of the two vectors has zero magnitude or their lengths
\* differ, the call returns 0.0 and does not raise; this for the analyzer's
\* method with and without numpy and for the database layer's function.
SimilarityDegenerateIsZero ==
    (/\ sim.op # "none"
     /\ \/ Len(sim.v1) # Len(sim.v2)
        \/ SumOfSquares(sim.v1) = 0
        \/ SumOfSquares(sim.v2) = 0) =>
        /\ sim.out.status = "returned"
        /\ sim.out.num = 0

CalledSimilarities == mat.op = "calculate_similarities"

\* The entry is the number 1.0 (num / sqrt(den2) = 1).
IsOne(e) == e.status = "returned" /\ e.num > 0 /\ e.num * e.num = e.den2

\* The entry is the number 0.3.
IsThreeTenths(e) ==
    e.status = "returned" /\ e.num > 0 /\ 100 * e.num * e.num = 9 * e.den2

IsZeroVector(v) == v # <<>> /\ \A k \in DOMAIN v : v[k] = 0

\* The record carries a vector written by save.
HasPersistedVector(m) ==
    "embeddings" \in DOMAIN m /\ Len(m.embeddings) > 0

\* The record's vector was rebuilt from its columns rather than read from
\* an attribute of the record.
IsReconstructed(m) ==
    "feature_vector" \notin DOMAIN m \/ Len(m.feature_vector) = 0

\* C21: for every list of N >= 1 records the similarity matrix is N x N,
\* every diagonal entry is exactly 1.0 whatever the vectors are (zero vectors
\* included), and entry (i, j) equals entry (j, i), on the normal and on the
\* fallback path.
MatrixSquareUnitDiagonalSymmetric ==
    CalledSimilarities /\ Len(mat.list) >= 1 =>
        LET n == Len(mat.list)
            m == mat.out.matrix
        IN
        /\ Len(m) = n
        /\ \A i \in 1..n : Len(m[i]) = n
        /\ \A i \in 1..n : IsOne(m[i][i])
        /\ \A i, j \in 1..n : m[i][j] = m[j][i]

MatrixSquareUnitDiagonalSymmetricWitness ==
    /\ CalledSimilarities
    /\ Len(mat.list) >= 2
    /\ mat.out.path = "normal"
    /\ \E k \in DOMAIN mat.out.vectors : IsZeroVector(mat.out.vectors[k])
    /\ \E k \in DOMAIN mat.out.vectors : ~IsZeroVector(mat.out.vectors[k])

\* C22: the similarity matrix never fails its caller: when a step inside
\* fails (here numpy refusing two vectors of different lengths) the call
\* returns the N x N matrix with 1.0 on the diagonal and 0.3 elsewhere.
MatrixFallbackOnFailure ==
    CalledSimilarities =>
        LET n == Len(mat.list)
            v == mat.out.vectors
            m == mat.out.matrix
        IN
        /\ mat.out.status = "returned"
        /\ (libs = "available" /\ \E i, j \in 1..n : Len(v[i]) # Len(v[j])) =>
               /\ Len(m) = n
               /\ \A i \in 1..n : Len(m[i]) = n
               /\ \A i, j \in 1..n :
                      IF i = j THEN IsOne(m[i][j]) ELSE IsThreeTenths(m[i][j])

MatrixFallbackOnFailureWitness ==
    /\ CalledSimilarities
    /\ libs = "available"
    /\ \E i, j \in DOMAIN mat.out.vectors :
           Len(mat.out.vectors[i]) # Len(mat.out.vectors[j])
    /\ mat.out.path = "fallback"
    /\ mat.out.status = "returned"

\* C23: a record whose full vector was persisted by save is compared by
\* that persisted vector; reconstruction is for records without one.
MatrixUsesPersistedVector ==
    CalledSimilarities =>
        \A k \in DOMAIN mat.list :
            HasPersistedVector(mat.list[k]) =>
                mat.out.vectors[k] = mat.list[k].embeddings

\* C24: a reconstructed vector has as many components as a vector produced
\* by extraction, whichever fields the record lacks and however long its
\* stored MFCC list is.
ReconstructedLengthMatchesExtracted ==
    CalledSimilarities =>
        \A k \in DOMAIN mat.list :
            (/\ IsReconstructed(mat.list[k])
             /\ \E i \in DOMAIN features : HasPersistedVector(features[i])) =>
                \E i \in DOMAIN features :
                    /\ HasPersistedVector(features[i])
                    /\ Len(mat.out.vectors[k]) = Len(features[i].embeddings)

\* ----------------------------------------------- interaction summary claims
Summarized == rec.op = "recommend"

OccurrencesOf(log, t) == Cardinality({k \in DOMAIN log : log[k] = t})

FirstOccurrenceOf(log, t) ==
    CHOOSE k \in DOMAIN log : log[k] = t /\ \A j \in 1..(k - 1) : log[j] # t

TagsOf(log) == {log[k] : k \in DOMAIN log}

\* C25: for a non-empty interaction sequence the summary names as most
\* common a tag with the highest count, and among tags sharing the highest
\* count the one that occurs first in the sequence.
SummaryMostCommonFirstAmongTies ==
    Summarized /\ rec.interactions # <<>> =>
        LET log == rec.interactions
            t == rec.patterns.most_common_interaction
        IN
        /\ t \in TagsOf(log)
        /\ \A u \in TagsOf(log) :
               /\ OccurrencesOf(log, t) >= OccurrencesOf(log, u)
               /\ OccurrencesOf(log, t) = OccurrencesOf(log, u) =>
                      FirstOccurrenceOf(log, t) <= FirstOccurrenceOf(log, u)

SummaryMostCommonFirstAmongTiesWitness ==
    /\ Summarized
    /\ \E t, u \in TagsOf(rec.interactions) :
           /\ t # u
           /\ OccurrencesOf(rec.interactions, t) = OccurrencesOf(rec.interactions, u)
           /\ FirstOccurrenceOf(rec.interactions, t)
                  < FirstOccurrenceOf(rec.interactions, u)
           /\ rec.patterns.most_common_interaction = t

\* C26: the summary of an empty interaction set is empty at any hour, and
\* for a non-empty set the active-hours flag is true exactly in the hours
\* 9 through 22.
SummaryActiveHoursNineToTwentyTwo ==
    Summarized =>
        IF rec.interactions = <<>> THEN DOMAIN rec.patterns = {}
        ELSE rec.patterns.active_hours = (9 <= rec.hour /\ rec.hour <= 22)

\* ---------------------------------------------------- analyze endpoint claims
\* The commit session s is about to make cannot succeed: the database fails,
\* or the session's pending INSERT meets a row with the same audioFileId.
PersistenceFails(s) ==
    /\ sess[s].pc = "analyzed"
    /\ sess'[s].pc = "idle"
    /\ \/ anl'.fault
       \/ /\ sess[s].existing = 0
          /\ \E i \in DOMAIN features : features[i].audioFileId = sess[s].id

\* C27: when the persistence step of an analyze request with an
\* audio_file_id fails, the table of stored features is left as it was (no
\* partial record), and the caller receives the computed features unmodified
\* with status success.
AnalyzeSurvivesPersistenceFailure ==
    [][\A s \in Sessions :
          PersistenceFails(s) =>
              /\ features' = features
              /\ anl'.session = s
              /\ anl'.status = "success"
              /\ anl'.features = sess[s].feat]_vars

AnalyzeSurvivesPersistenceFailureWitness ==
    /\ anl.op = "analyze"
    /\ anl.id # NoAudioFileId
    /\ ~anl.fault
    /\ lastSave.status = "error"
    /\ anl.status = "success"
    /\ "feature_vector" \in DOMAIN anl.features
    /\ \E i \in DOMAIN features : features[i].audioFileId = anl.id

\* ------------------------------------------------------------ router claims
\* C28: after a completed room-recommendation request for a user there is a
\* valid unexpired cache entry for (user, room recommendations): the ranked
\* list was written through before it was returned.
RoomsRequestWritesThrough ==
    (rec.op = "recommend" /\ rec.result # <<>>) =>
        LiveFor(rec.user, "rooms") # {}

AllowedPreferenceKeys ==
    {"preferred_genres", "preferred_tempo_range", "activity_level",
     "genre_preferences", "tempo_range", "energy_range", "discovery_mode",
     "confidence_score"}

IsInvalidUpdate(m) ==
    \/ DOMAIN m = {}
    \/ \E k \in DOMAIN m : k \notin AllowedPreferenceKeys
    \/ "tempo_range" \in DOMAIN m /\ Len(m.tempo_range) # 2

\* C29: a preferences update whose map is empty, has a key outside the
\* allow-list or a malformed tempo_range is answered with 422 and leaves the
\* stored preferences as they were.
PutInvalidRejectedWith422 ==
    [][(put'.op = "put" /\ put' # put /\ IsInvalidUpdate(put'.updates)) =>
          /\ put'.status = "422"
          /\ prefs' = prefs]_vars

\* --------------------------------------------------- concurrent get claims
\* C30: hit counting loses no update: when the two sessions have each found
\* the same valid entry at the same counter value and have both written
\* hitCount + 1, the entry's counter is two higher than that value.
ConcurrentGetsAllCounted ==
    \A s, t \in Sessions :
        (/\ s # t
         /\ gets[s].pc = "done"
         /\ gets[t].pc = "done"
         /\ gets[s].id = gets[t].id
         /\ gets[s].hit = gets[t].hit) =>
            cache[gets[s].id].hitCount = gets[s].hit + 2

====
